---- MODULE Spec2Model ----
(***************************************************************************)
(* Model of examples/pyramid_demo.py: a Pyramid application that signs     *)
(* users in through the Bouncer OAuth2 authorization-code grant.           *)
(*                                                                         *)
(* Python values are modelled as follows.                                  *)
(*   str    a sequence of one-character strings, <<"i","d">> for 'id'      *)
(*   None   the tuple <<"None">>, which is no str (its element is not a    *)
(*          single character)                                              *)
(*   dict   a function from keys (TLA+ strings) to values                  *)
(* A parsed JSON body is tagged: [type |-> "None"] when requests could not *)
(* parse the body (Response.json is the property of requests < 1.0, which  *)
(* yields None then), [type |-> "dict", items |-> d] otherwise.            *)
(***************************************************************************)
EXTENDS Integers, Sequences, FiniteSets, TLC

\* Bounds of the model.
MaxReq == 2          \* callback invocations that may be in flight together
MaxLen == 2          \* longest client id drawn in SpecUrl

None == <<"None">>

Get(d, k) == IF k \in DOMAIN d THEN d[k] ELSE None

\* Python truth value of a str-or-None: None and '' are false.
Truthy(v) == v /= None /\ v /= <<>>

\* str(v) as urlencode applies it to a value.
PyStr(v) == IF v = None THEN <<"N", "o", "n", "e">> ELSE v

AUTHORIZE_ENDPOINT == <<"https://www.bouncer.io/oauth/authorize">>
TOKEN_ENDPOINT == "https://www.bouncer.io/oauth/token"
USER_ENDPOINT == "https://www.bouncer.io/api/user"

-----------------------------------------------------------------------------
(* urllib.urlencode / urllib.quote_plus of Python 2 *)

\* urllib.always_safe: letters, digits and "_.-".
AlwaysSafe ==
    {"A", "B", "C", "D", "E", "F", "G", "H", "I", "J", "K", "L", "M", "N",
     "O", "P", "Q", "R", "S", "T", "U", "V", "W", "X", "Y", "Z", "a", "b",
     "c", "d", "e", "f", "g", "h", "i", "j", "k", "l", "m", "n", "o", "p",
     "q", "r", "s", "t", "u", "v", "w", "x", "y", "z", "0", "1", "2", "3",
     "4", "5", "6", "7", "8", "9", "_", ".", "-"}

\* The two hexadecimal digits quote() writes after "%" for a character.
PercentCode(c) ==
    CASE c = "&" -> <<"2", "6">>
      [] c = "=" -> <<"3", "D">>
      [] c = "%" -> <<"2", "5">>
      [] c = "+" -> <<"2", "B">>
      [] c = "/" -> <<"2", "F">>
      [] c = ":" -> <<"3", "A">>
      [] c = "<" -> <<"3", "C">>
      [] c = ">" -> <<"3", "E">>
      [] c = "?" -> <<"3", "F">>
      [] c = " " -> <<"2", "0">>

Reserved == {"&", "=", "%", "+", "/", ":", "<", ">", "?", " "}

RECURSIVE quote_plus_noamp(_)
quote_plus_noamp(s) ==
    IF s = <<>> THEN <<>>
    ELSE LET c == Head(s)
             q == IF c = " " THEN <<"+">>
                  ELSE IF c \in AlwaysSafe \/ c = "&" THEN <<c>>
                  ELSE <<"%">> \o PercentCode(c)
         IN  q \o quote_plus_noamp(Tail(s))

RECURSIVE quote_plus(_)
quote_plus(s) ==
    IF s = <<>> THEN <<>>
    ELSE LET c == Head(s)
             q == IF c = " " THEN <<"+">>
                  ELSE IF c \in AlwaysSafe THEN <<c>>
                  ELSE <<"%">> \o PercentCode(c)
         IN  q \o quote_plus(Tail(s))

\* The characters of a dict key.
KeyChars(k) ==
    CASE k = "client_id" -> <<"c", "l", "i", "e", "n", "t", "_", "i", "d">>
      [] k = "redirect_uri" ->
             <<"r", "e", "d", "i", "r", "e", "c", "t", "_", "u", "r", "i">>
      [] k = "response_type" ->
             <<"r", "e", "s", "p", "o", "n", "s", "e", "_", "t", "y", "p", "e">>

\* The orders in which a dict of the three authorize parameters can be
\* iterated: the order follows the hash of the keys, which the interpreter
\* build fixes, not the program.
DictOrders ==
    {o \in [1..3 -> {"client_id", "redirect_uri", "response_type"}] :
        \A i, j \in 1..3 : i /= j => o[i] /= o[j]}

\* urlencode(params), the items taken in the order `order`.
RECURSIVE urlencode(_, _)
urlencode(params, order) ==
    IF order = <<>> THEN <<>>
    ELSE LET k == Head(order)
             item == quote_plus(KeyChars(k)) \o <<"=">>
                        \o quote_plus(PyStr(params[k]))
         IN  IF Len(order) = 1 THEN item
             ELSE item \o <<"&">> \o urlencode(params, Tail(order))

-----------------------------------------------------------------------------
(* request.route_url and the routes app_factory registers *)

Scheme == <<"h", "t", "t", "p", ":", "/", "/">>

\* The quoting route_url applies to the value of a route pattern's
\* placeholder: urllib.quote with no character beyond AlwaysSafe kept.
RECURSIVE url_quote(_)
url_quote(s) ==
    IF s = <<>> THEN <<>>
    ELSE LET c == Head(s)
         IN  (IF c \in AlwaysSafe THEN <<c>> ELSE <<"%">> \o PercentCode(c))
                \o url_quote(Tail(s))

RoutePath(name) ==
    CASE name = "index" -> <<"/">>
      [] name = "callback" ->
             <<"/", "a", "u", "t", "h", "/", "c", "a", "l", "l", "b", "a", "c", "k">>
      [] name = "user" -> <<"/", "u", "s", "e", "r", "/">>

\* request.route_url(name) for a request received on `host`.
route_url(host, name) == Scheme \o host \o RoutePath(name)

\* request.route_url('user', username=username): a value that is no str
\* goes into the pattern as str() writes it.
route_url_user(host, username) ==
    route_url(host, "user")
       \o (IF username = None THEN PyStr(username) ELSE url_quote(username))

-----------------------------------------------------------------------------
(* Responses *)

NoCalls == <<>>

\* pyramid.response.Response(body)
Response(body) ==
    [kind |-> "response", status |-> 200, body |-> body,
     location |-> <<>>, exc |-> "none"]

\* pyramid.httpexceptions.HTTPFound(location=...)
HTTPFound(location) ==
    [kind |-> "redirect", status |-> 302, body |-> <<>>,
     location |-> location, exc |-> "none"]

\* An exception that leaves the view callable: nothing in the module
\* catches it.
Fault(exc) ==
    [kind |-> "fault", status |-> 500, body |-> <<>>,
     location |-> <<>>, exc |-> exc]

\* markup.format(arg) for a template with text before and after {0}.
Format(before, arg, after) == <<before>> \o arg \o <<after>>

IndexMarkupHead == "<h1>Sign In</h1><p><a href="
IndexMarkupTail == ">Sign in with Bouncer</a>.</p>"
UserMarkupHead == "<h1>Welcome "
UserMarkupTail == "!</h1><p><a href=/>Go again</a></p>."
ErrorMarkupHead == "<h1>Whoops!</h1><p><a href=/>Try that again</a></p>.<pre>"
ErrorMarkupTail == "</pre>"

-----------------------------------------------------------------------------
(* Inputs *)

EnvNames == {"BOUNCER_CLIENT_ID", "BOUNCER_CLIENT_SECRET"}
ClientIdValue == <<"i", "d">>
ClientSecretValue == <<"s", "3">>

Hosts == {<<"h", "1">>, <<"h", "2">>}

Usernames == {<<"a", "l">>, <<"<", "s", ">">>}

\* Environments of the server specification: each variable set or unset.
Environs ==
    {[n \in names |-> IF n = "BOUNCER_CLIENT_ID" THEN ClientIdValue
                      ELSE ClientSecretValue] : names \in SUBSET EnvNames}

\* Client ids of the URL specification: every string up to MaxLen over
\* characters that form-encoding has to treat differently.
UrlAlphabet == {"a", "&", "=", "%", "+", " ", "2", "6"}

StringsUpTo(n) == UNION {[1..m -> UrlAlphabet] : m \in 0..n}

VARIABLES
    environ,     \* os.environ, restricted to the two variables read
    started,     \* app_factory has returned the WSGI application
    settings,    \* request.registry.settings
    inflight,    \* callback invocations waiting for an outbound call
    last         \* the request completed last, with its outcome

vars == <<environ, started, settings, inflight, last>>

NoSettings == [client_id |-> None, client_secret |-> None]

FreeSlot == [pc |-> "free", host |-> <<>>, params |-> <<>>, calls |-> NoCalls]

NoLast ==
    [view |-> "none", host |-> <<>>, params |-> <<>>, matchdict |-> <<>>,
     calls |-> NoCalls, url |-> <<>>, outcome |-> Fault("none")]

Completed(view, host, params, matchdict, calls, url, outcome) ==
    [view |-> view, host |-> host, params |-> params, matchdict |-> matchdict,
     calls |-> calls, url |-> url, outcome |-> outcome]

Init ==
    /\ environ \in Environs
    /\ started = FALSE
    /\ settings = NoSettings
    /\ inflight = [r \in 1..MaxReq |-> FreeSlot]
    /\ last = NoLast

-----------------------------------------------------------------------------
(* app_factory *)

app_factory ==
    /\ ~started
    /\ settings' = [client_id |-> Get(environ, "BOUNCER_CLIENT_ID"),
                    client_secret |-> Get(environ, "BOUNCER_CLIENT_SECRET")]
    /\ started' = TRUE
    /\ UNCHANGED <<environ, inflight, last>>

-----------------------------------------------------------------------------
(* index_view *)

authorize_params(host) ==
    [client_id |-> settings.client_id,
     redirect_uri |-> route_url(host, "callback"),
     response_type |-> <<"c", "o", "d", "e">>]

login_url(host, order) ==
    AUTHORIZE_ENDPOINT \o <<"?">> \o urlencode(authorize_params(host), order)

index_view(host, order) ==
    /\ started
    /\ last' = Completed("index", host, <<>>, <<>>, NoCalls, <<>>,
                  Response(Format(IndexMarkupHead, login_url(host, order),
                                  IndexMarkupTail)))
    /\ UNCHANGED <<environ, started, settings, inflight>>

-----------------------------------------------------------------------------
(* user_view *)

user_view(host, matchdict) ==
    /\ started
    /\ LET username == Get(matchdict, "username")
       IN  last' = Completed("user", host, <<>>, matchdict, NoCalls, <<>>,
                      Response(Format(UserMarkupHead, username,
                                      UserMarkupTail)))
    /\ UNCHANGED <<environ, started, settings, inflight>>

-----------------------------------------------------------------------------
(* callback_view *)

CodeValue == <<"c", "1">>
DeniedValue == <<"d", "e", "n", "y">>
Tokens == {<<"t", "1">>, <<"t", "2">>}

\* request.params of the callbacks received: code and error each present or
\* absent, error possibly empty.
CallbackParams ==
    {<<>>,
     [code |-> CodeValue],
     [error |-> DeniedValue],
     [code |-> CodeValue, error |-> DeniedValue],
     [code |-> CodeValue, error |-> <<>>]}

JsonNone == [type |-> "None"]
JsonDict(d) == [type |-> "dict", items |-> d]
Pending == [type |-> "pending"]
ConnectionError == [type |-> "ConnectionError"]

\* What requests.get can come back with: an exception, or a response whose
\* body parses to a dict or does not parse.
TokenJsons ==
    {JsonNone, JsonDict(<<>>)} \cup {JsonDict([access_token |-> t]) : t \in Tokens}

ProfileJsons ==
    {JsonNone, JsonDict(<<>>), JsonDict([data |-> <<>>])}
       \cup {JsonDict([data |-> [username |-> u]]) : u \in Usernames}

StatusCodes == {200, 500}

\* repr(request.params) as format() writes it into the error page.
ReprItem(params, k) ==
    IF k \in DOMAIN params THEN <<"(u'" \o k \o "', u'">> \o params[k] \o <<"')">>
    ELSE <<>>

ReprParams(params) ==
    <<"NestedMultiDict([">> \o ReprItem(params, "code")
        \o ReprItem(params, "error") \o <<"])">>

\* error = request.params.get('error'); if error:
error_branch_unless_code(params) ==
    Truthy(Get(params, "error")) /\ "code" \notin DOMAIN params

error_branch(params) == Truthy(Get(params, "error"))

token_params_index_uri(host, params) ==
    [code |-> Get(params, "code"),
     grant_type |-> <<"a", "u", "t", "h", "o", "r", "i", "z", "a", "t", "i",
                      "o", "n", "_", "c", "o", "d", "e">>,
     redirect_uri |-> route_url(host, "index")]

token_params(host, params) ==
    [code |-> Get(params, "code"),
     grant_type |-> <<"a", "u", "t", "h", "o", "r", "i", "z", "a", "t", "i",
                      "o", "n", "_", "c", "o", "d", "e">>,
     redirect_uri |-> route_url(host, "callback")]

\* auth = (settings.get('client_id'), settings.get('client_secret'))
BasicAuth(client_id, client_secret) ==
    [scheme |-> "basic", credentials |-> <<client_id, client_secret>>]

BearerAuthFixed(access_token) ==
    [scheme |-> "bearer", credentials |-> << <<"t", "1">> >>]

BearerAuth(access_token) ==
    [scheme |-> "bearer", credentials |-> <<access_token>>]

\* requests.get(endpoint, params=params, auth=auth), not yet returned.
Call(endpoint, params, auth) ==
    [endpoint |-> endpoint, params |-> params, auth |-> auth,
     response |-> Pending]

Returned(call, response) == [call EXCEPT !.response = response]

\* Lines 77-98: the error branch, or the token request is sent.
callback_view_begin(r, host, params) ==
    /\ started
    /\ inflight[r].pc = "free"
    /\    IF error_branch(params)
          THEN /\ last' = Completed("callback", host, params, <<>>, NoCalls,
                             <<>>,
                             Response(Format(ErrorMarkupHead,
                                             ReprParams(params),
                                             ErrorMarkupTail)))
               /\ UNCHANGED inflight
          ELSE /\ inflight' =
                     [inflight EXCEPT ![r] =
                         [pc |-> "token", host |-> host, params |-> params,
                          calls |-> <<Call(TOKEN_ENDPOINT,
                                           token_params(host, params),
                                           BasicAuth(settings.client_id,
                                                     settings.client_secret))>>]]
               /\ UNCHANGED last
    /\ UNCHANGED <<environ, started, settings>>

\* The invocation in slot r ends with `outcome`.
Finish(r, calls, url, outcome) ==
    /\ last' = Completed("callback", inflight[r].host, inflight[r].params,
                         <<>>, calls, url, outcome)
    /\ inflight' = [inflight EXCEPT ![r] = FreeSlot]

\* Lines 98-103, requests.get raises: the token endpoint was not reached.
callback_view_token_fails(r) ==
    /\ inflight[r].pc = "token"
    /\ Finish(r, <<Returned(inflight[r].calls[1], ConnectionError)>>, <<>>,
              Fault("ConnectionError"))
    /\ UNCHANGED <<environ, started, settings>>

\* Lines 98-103, requests.get returns: token_data = response.json, whatever
\* the status; token_data['access_token']; the profile request is sent.
callback_view_token_returns(r, status, token_data) ==
    /\ inflight[r].pc = "token"
    /\    LET calls == <<Returned(inflight[r].calls[1], token_data)>>
          IN  IF token_data = JsonNone
              THEN Finish(r, calls, <<>>, Fault("TypeError"))
              ELSE IF "access_token" \notin DOMAIN token_data.items
              THEN Finish(r, calls, <<>>, Fault("KeyError"))
              ELSE /\ inflight' =
                         [inflight EXCEPT ![r] =
                             [@ EXCEPT !.pc = "profile",
                                       !.calls = calls \o
                                          <<Call(USER_ENDPOINT, <<>>,
                                                 BearerAuth(token_data.items["access_token"]))>>]]
                   /\ UNCHANGED last
    /\ UNCHANGED <<environ, started, settings>>

\* Lines 103-110, requests.get raises.
callback_view_profile_fails(r) ==
    /\ inflight[r].pc = "profile"
    /\ Finish(r, <<inflight[r].calls[1],
                   Returned(inflight[r].calls[2], ConnectionError)>>, <<>>,
              Fault("ConnectionError"))
    /\ UNCHANGED <<environ, started, settings>>

\* Lines 103-110, requests.get returns: user_data = response.json.get('data');
\* username = user_data.get('username'); url = request.route_url(...); the
\* return statement names `location`, which nothing defines.
callback_view_profile_returns(r, status, json) ==
    /\ inflight[r].pc = "profile"
    /\    LET calls == <<inflight[r].calls[1],
                         Returned(inflight[r].calls[2], json)>>
          IN  IF json = JsonNone
              THEN Finish(r, calls, <<>>, Fault("AttributeError"))
              ELSE IF "data" \notin DOMAIN json.items
              THEN Finish(r, calls, <<>>, Fault("AttributeError"))
              ELSE LET user_data == json.items["data"]
                       username == Get(user_data, "username")
                       url == route_url_user(inflight[r].host, username)
                   IN  Finish(r, calls, url, Fault("NameError"))
    /\ UNCHANGED <<environ, started, settings>>

-----------------------------------------------------------------------------

(* serve: wsgiref's simple server takes one request at a time, so a view *)
(* is entered only while no callback is waiting for an outbound call.     *)

Idle == \A r \in 1..MaxReq : inflight[r].pc = "free"

Matchdicts == {[username |-> u] : u \in Usernames}

serve_index ==
    \E host \in Hosts, order \in DictOrders : Idle /\ index_view(host, order)

serve_user ==
    \E host \in Hosts, matchdict \in Matchdicts :
        Idle /\ user_view(host, matchdict)

serve_callback ==
    \E r \in 1..MaxReq, host \in Hosts, params \in CallbackParams :
        Idle /\ callback_view_begin(r, host, params)

Next ==
    \/ app_factory
    \/ serve_index
    \/ serve_user
    \/ serve_callback
    \/ \E r \in 1..MaxReq : callback_view_token_fails(r)
    \/ \E r \in 1..MaxReq, status \in StatusCodes, token_data \in TokenJsons :
          callback_view_token_returns(r, status, token_data)
    \/ \E r \in 1..MaxReq : callback_view_profile_fails(r)
    \/ \E r \in 1..MaxReq, status \in StatusCodes, json \in ProfileJsons :
          callback_view_profile_returns(r, status, json)

Spec == Init /\ [][Next]_vars

(* The application behind a WSGI server that runs request handlers          *)
(* concurrently: callbacks with a code interleave at their outbound calls. *)

ConcParams == {[code |-> CodeValue]}

NextConc ==
    \/ app_factory
    \/ \E r \in 1..MaxReq, host \in Hosts, params \in ConcParams :
          callback_view_begin(r, host, params)
    \/ \E r \in 1..MaxReq : callback_view_token_fails(r)
    \/ \E r \in 1..MaxReq, status \in StatusCodes, token_data \in TokenJsons :
          callback_view_token_returns(r, status, token_data)
    \/ \E r \in 1..MaxReq : callback_view_profile_fails(r)
    \/ \E r \in 1..MaxReq, status \in StatusCodes, json \in ProfileJsons :
          callback_view_profile_returns(r, status, json)

SpecConc == Init /\ [][NextConc]_vars

(* The authorize URL for every client id up to MaxLen characters. *)

InitUrl ==
    /\ environ \in {[n \in EnvNames |-> IF n = "BOUNCER_CLIENT_ID" THEN id
                                       ELSE ClientSecretValue] :
                       id \in StringsUpTo(MaxLen)}
    /\ started = FALSE
    /\ settings = NoSettings
    /\ inflight = [r \in 1..MaxReq |-> FreeSlot]
    /\ last = NoLast

NextUrl ==
    \/ app_factory
    \/ \E host \in Hosts, order \in DictOrders : index_view(host, order)

SpecUrl == InitUrl /\ [][NextUrl]_vars

-----------------------------------------------------------------------------
(* Form decoding, the inverse against which the authorize URL is read back: *)
(* urlparse.parse_qsl(qs, keep_blank_values=True) and urllib.unquote.       *)

IsInfix(a, b) ==
    \E i \in 0..(Len(b) - Len(a)) : SubSeq(b, i + 1, i + Len(a)) = a

Count(s, c) == Cardinality({i \in 1..Len(s) : s[i] = c})

FirstIndex(s, c) ==
    CHOOSE i \in 1..Len(s) : s[i] = c /\ \A j \in 1..(i - 1) : s[j] /= c

RECURSIVE SplitOn(_, _)
SplitOn(s, sep) ==
    IF Count(s, sep) = 0 THEN <<s>>
    ELSE LET i == FirstIndex(s, sep)
         IN  <<SubSeq(s, 1, i - 1)>> \o SplitOn(SubSeq(s, i + 1, Len(s)), sep)

PlusToSpace(s) == [i \in 1..Len(s) |-> IF s[i] = "+" THEN " " ELSE s[i]]

IsPercentCode(a, b) == \E c \in Reserved : PercentCode(c) = <<a, b>>

RECURSIVE unquote(_)
unquote(s) ==
    IF s = <<>> THEN <<>>
    ELSE IF s[1] = "%" /\ Len(s) >= 3 /\ IsPercentCode(s[2], s[3])
    THEN <<CHOOSE c \in Reserved : PercentCode(c) = <<s[2], s[3]>> >>
             \o unquote(SubSeq(s, 4, Len(s)))
    ELSE <<s[1]>> \o unquote(Tail(s))

\* One name=value piece, split at its first "=".
ParsePiece(piece) ==
    IF Count(piece, "=") = 0 THEN <<unquote(PlusToSpace(piece)), <<>> >>
    ELSE LET i == FirstIndex(piece, "=")
         IN  <<unquote(PlusToSpace(SubSeq(piece, 1, i - 1))),
               unquote(PlusToSpace(SubSeq(piece, i + 1, Len(piece))))>>

RECURSIVE ParsePieces(_)
ParsePieces(pieces) ==
    IF pieces = <<>> THEN <<>>
    ELSE (IF Head(pieces) = <<>> THEN <<>> ELSE <<ParsePiece(Head(pieces))>>)
            \o ParsePieces(Tail(pieces))

parse_qsl(qs) == ParsePieces(SplitOn(qs, "&"))

\* The href of the page index_view rendered, and its query string.
HrefOf(body) == SubSeq(body, 2, Len(body) - 1)
QueryOf(url) == SubSeq(url, 3, Len(url))

\* The value decoded for `name`, when the query has it exactly once.
Decoded(qs, name) ==
    LET pairs == parse_qsl(qs)
        i == CHOOSE i \in 1..Len(pairs) : pairs[i][1] = KeyChars(name)
    IN  pairs[i][2]

-----------------------------------------------------------------------------
(* Invocations of callback_view visible in a state *)

\* The call logs of every callback invocation: those in flight and the one
\* completed last.
CallLogs ==
    {inflight[r].calls : r \in {q \in 1..MaxReq : inflight[q].pc /= "free"}}
       \cup (IF last.view = "callback" THEN {last.calls} ELSE {})

HasToken(response) ==
    response.type = "dict" /\ "access_token" \in DOMAIN response.items

HasUsername(response) ==
    /\ response.type = "dict"
    /\ "data" \in DOMAIN response.items
    /\ "username" \in DOMAIN response.items["data"]

MarkupChars == {"<", ">", "&"}

GrantType ==
    <<"a", "u", "t", "h", "o", "r", "i", "z", "a", "t", "i", "o", "n", "_",
      "c", "o", "d", "e">>

-----------------------------------------------------------------------------
(* Claims *)

\* C1: a callback request whose `error` parameter is non-empty, with or
\* without a `code`, is answered by the error page, which shows the raw
\* request parameters; the invocation makes no outbound call (it is never
\* found waiting for the token or the profile endpoint) and no redirect is
\* issued.
C1_ErrorShortCircuits ==
    /\ \A r \in 1..MaxReq :
          inflight[r].pc /= "free" => ~Truthy(Get(inflight[r].params, "error"))
    /\ (last.view = "callback" /\ Truthy(Get(last.params, "error"))) =>
          /\ last.outcome.kind = "response"
          /\ last.outcome.body[1] = ErrorMarkupHead
          /\ \A k \in DOMAIN last.params :
                IsInfix(last.params[k], last.outcome.body)
          /\ last.calls = NoCalls
          /\ last.outcome.location = <<>>

C1_Witness ==
    /\ last.view = "callback"
    /\ last.params = [code |-> CodeValue, error |-> DeniedValue]
    /\ last.outcome.kind = "response"

\* C2: a callback with a code and no error, whose token exchange returned an
\* access_token and whose profile fetch returned data.username = u, ends in
\* a 3xx redirect to the user route built from u.
C2_RedirectsToUser ==
    (/\ last.view = "callback"
     /\ "code" \in DOMAIN last.params
     /\ "error" \notin DOMAIN last.params
     /\ Len(last.calls) = 2
     /\ HasToken(last.calls[1].response)
     /\ HasUsername(last.calls[2].response)) =>
        /\ last.outcome.status \in 300..399
        /\ last.outcome =
              HTTPFound(route_url_user(last.host,
                           last.calls[2].response.items["data"]["username"]))

\* C3: when the token response is unparseable or lacks access_token, the
\* invocation ends in an UpstreamTokenError, not in an unhandled fault, and
\* makes no profile call.
C3_UpstreamTokenError ==
    (/\ last.view = "callback"
     /\ Len(last.calls) >= 1
     /\ last.calls[1].response.type \in {"None", "dict"}
     /\ ~HasToken(last.calls[1].response)) =>
        /\ last.outcome.kind /= "fault"
        /\ last.outcome.exc = "UpstreamTokenError"
        /\ Len(last.calls) = 1

\* C4: when the token exchange succeeded and the profile response is
\* unparseable or lacks data or data.username, the invocation ends in an
\* UpstreamProfileError, not in an unhandled fault, and issues no redirect.
C4_UpstreamProfileError ==
    (/\ last.view = "callback"
     /\ Len(last.calls) = 2
     /\ HasToken(last.calls[1].response)
     /\ last.calls[2].response.type \in {"None", "dict"}
     /\ ~HasUsername(last.calls[2].response)) =>
        /\ last.outcome.kind /= "fault"
        /\ last.outcome.exc = "UpstreamProfileError"
        /\ last.outcome.kind /= "redirect"

\* C5: every invocation of callback_view ends in a response to the caller
\* (a page or a redirect), never in an unhandled fault.
C5_NoUnhandledFault ==
    last.view = "callback" => last.outcome.kind \in {"response", "redirect"}

\* C6: the authorize URL is the authorize endpoint, "?", and a form-encoded
\* query of exactly the parameters client_id, redirect_uri and response_type,
\* which decodes to the client id, the callback URL and "code".
C6_AuthorizeUrlRoundTrip ==
    last.view = "index" =>
        LET url == HrefOf(last.outcome.body)
            qs == QueryOf(url)
            pairs == parse_qsl(qs)
        IN  /\ SubSeq(url, 1, 2) = AUTHORIZE_ENDPOINT \o <<"?">>
            /\ \A i \in 1..Len(qs) :
                  qs[i] \in AlwaysSafe \cup {"%", "+", "&", "="}
            /\ Count(qs, "&") = 2
            /\ Count(qs, "=") = 3
            /\ Len(pairs) = 3
            /\ {pairs[i] : i \in 1..3} =
                  {<<KeyChars("client_id"), settings.client_id>>,
                   <<KeyChars("redirect_uri"), route_url(last.host, "callback")>>,
                   <<KeyChars("response_type"), <<"c", "o", "d", "e">> >>}

C6_Witness ==
    /\ last.view = "index"
    /\ settings.client_id = <<"&", "=">>

\* C7: each invocation of callback_view, interleaved with others or not,
\* makes at most two outbound calls, one after the other: the token call
\* first and once, the profile call once and only when the token call has
\* returned, carrying as Bearer credential the access_token returned to that
\* same invocation.
C7_SequentialCalls ==
    \A calls \in CallLogs :
        /\ Len(calls) \in 1..2
        /\ calls[1].endpoint = TOKEN_ENDPOINT
        /\ Len(calls) = 2 =>
              /\ calls[2].endpoint = USER_ENDPOINT
              /\ HasToken(calls[1].response)
              /\ calls[2].auth.scheme = "bearer"
              /\ calls[2].auth.credentials =
                    <<calls[1].response.items["access_token"]>>

C7_Witness ==
    /\ \A r \in 1..2 : inflight[r].pc = "profile"
    /\ inflight[1].calls[1].response /= inflight[2].calls[1].response

\* C8: with the client id or the client secret unset in the environment,
\* app_factory yields no application and no request is handled.
C8_StartupAborts ==
    (EnvNames \ DOMAIN environ /= {}) => (~started /\ last.view = "none")

\* C9: the page user_view renders for a username with markup characters
\* does not contain the username verbatim.
C9_UsernameEscaped ==
    (/\ last.view = "user"
     /\ \E i \in 1..Len(last.matchdict["username"]) :
           last.matchdict["username"][i] \in MarkupChars) =>
        ~IsInfix(last.matchdict["username"], last.outcome.body)

\* C10: the token request carries exactly code (the callback's value),
\* grant_type = authorization_code and redirect_uri, is authenticated with
\* the configured client id and secret, and its redirect_uri is the one the
\* authorize URL of index_view carries for the same host.
C10_TokenRequest ==
    \A r \in 1..MaxReq :
        inflight[r].pc /= "free" =>
            LET call == inflight[r].calls[1]
            IN  /\ call.endpoint = TOKEN_ENDPOINT
                /\ DOMAIN call.params = {"code", "grant_type", "redirect_uri"}
                /\ call.params["code"] = Get(inflight[r].params, "code")
                /\ call.params["grant_type"] = GrantType
                /\ call.auth = BasicAuth(settings.client_id,
                                         settings.client_secret)
                /\ (last.view = "index" /\ last.host = inflight[r].host) =>
                      Decoded(QueryOf(HrefOf(last.outcome.body)),
                              "redirect_uri") = call.params["redirect_uri"]

C10_Witness ==
    /\ last.view = "index"
    /\ \E r \in 1..MaxReq :
          /\ inflight[r].pc = "token"
          /\ inflight[r].host = last.host
          /\ inflight[r].params = [code |-> CodeValue]
====
